---- MODULE Spec2Model ----
(***************************************************************************)
(* A model of the Ethereal IR block (evmla/ethereal_ir/function/block) and *)
(* of the per-contract compile pipeline (project/contract) of the          *)
(* era-compiler-solidity backend.                                          *)
(***************************************************************************)
EXTENDS Integers, Sequences, FiniteSets, TLC

VARIABLES
    slice,        \* SpecCall: the slice handed to try_from_instructions
    result,       \* SpecCall: what the call produced
    stream,       \* SpecPartition: the instruction stream of one region
    code_type,    \* the region kind the caller passes
    offset,       \* SpecPartition: the caller's offset into the stream
    blocks,       \* SpecPartition: the calls made so far, in order
    pstatus,      \* SpecPartition: "running", "done" or "panic"
    blk,          \* SpecBlock: two blocks, each with its set's iteration order
    inserted,     \* SpecBlock: per block, the pairs passed to insert_predecessor
    last,         \* SpecBlock: the latest insert_predecessor call
    ncalls,       \* SpecBlock: the number of insert_predecessor calls
    dumps,        \* SpecBlock: per block, the rendering of its current state
    emit,         \* SpecEmit: the position of into_llvm and its result
    context,      \* SpecEmit: the code-generation context
    comp          \* SpecCompile: the position of Contract::compile and its result

callVars == <<slice, result>>

partVars == <<stream, offset, blocks, pstatus>>

blockVars == <<blk, inserted, last, ncalls, dumps>>

emitVars == <<emit, context>>

vars == <<callVars, partVars, blockVars, emitVars, comp, code_type>>

(***************************************************************************)
(* Bounds of the model.                                                    *)
(***************************************************************************)
MaxLen == 3

MaxInserts == 4

MaxElements == 3

(***************************************************************************)
(* Instructions.  An instruction is a name and an optional textual         *)
(* operand; the text is a sequence of characters.                          *)
(***************************************************************************)
None == [some |-> FALSE, text |-> <<>>]

Some(t) == [some |-> TRUE, text |-> t]

Instr(n, v) == [name |-> n, value |-> v]

Terminators == {"RETURN", "REVERT", "STOP", "INVALID", "JUMP"}

CodeTypes == {"Deploy", "Runtime"}

\* The operands a Tag marker is drawn with: missing, "0", "1", "2", "01", "-1".
TagOperands ==
    {None, Some(<<"0">>), Some(<<"1">>), Some(<<"2">>), Some(<<"0", "1">>),
     Some(<<"-", "1">>)}

Instructions ==
    {Instr("Tag", v) : v \in TagOperands}
        \cup {Instr("PUSH", Some(<<"5">>)), Instr("ADD", None), Instr("JUMPI", None)}
        \cup {Instr(n, None) : n \in Terminators}

\* The scenario of the specification:
\* [Tag("1"), PUSH("5"), PUSH("3"), ADD, Tag("2"), RETURN].
Scenario ==
    <<Instr("Tag", Some(<<"1">>)), Instr("PUSH", Some(<<"5">>)),
      Instr("PUSH", Some(<<"3">>)), Instr("ADD", None),
      Instr("Tag", Some(<<"2">>)), Instr("RETURN", None)>>

Slices == UNION {[1..n -> Instructions] : n \in 0..MaxLen} \cup {Scenario}

(***************************************************************************)
(* str::parse::<num::BigUint>() on texts of digits and "-": a non-empty run *)
(* of decimal digits is its value, anything else is an error.              *)
(***************************************************************************)
DigitValue(c) ==
    CASE c = "0" -> 0 [] c = "1" -> 1 [] c = "2" -> 2 [] c = "3" -> 3
      [] c = "4" -> 4 [] c = "5" -> 5 [] c = "6" -> 6 [] c = "7" -> 7
      [] c = "8" -> 8 [] c = "9" -> 9 [] OTHER -> -1

RECURSIVE DecimalValue(_, _)
DecimalValue(text, acc) ==
    IF text = <<>> THEN acc
    ELSE DecimalValue(Tail(text), acc * 10 + DigitValue(Head(text)))

\* As ParseBigUint, with an unparsable text read as zero.
ParseLenient(text) ==
    [ok |-> TRUE,
     num |-> IF text # <<>> /\ \A i \in 1..Len(text) : DigitValue(text[i]) >= 0
             THEN DecimalValue(text, 0) ELSE 0]

ParseBigUint(text) ==
    IF text # <<>> /\ \A i \in 1..Len(text) : DigitValue(text[i]) >= 0
    THEN [ok |-> TRUE, num |-> DecimalValue(text, 0)]
    ELSE [ok |-> FALSE, num |-> 0]

(***************************************************************************)
(* Block::try_from_instructions.                                           *)
(***************************************************************************)
\* As AssembleLoop, with the element pushed after the match, so that a Tag
\* marker is not pushed.
RECURSIVE AssembleSkipTag(_, _, _)
AssembleSkipTag(s, cursor, elements) ==
    IF cursor >= Len(s) THEN [elements |-> elements, cursor |-> cursor]
    ELSE IF s[cursor + 1].name \in Terminators
         THEN [elements |-> Append(elements, s[cursor + 1]), cursor |-> cursor + 1]
         ELSE IF s[cursor + 1].name = "Tag"
              THEN [elements |-> elements, cursor |-> cursor]
              ELSE AssembleSkipTag(s, cursor + 1, Append(elements, s[cursor + 1]))

\* The `while cursor < slice.len()` loop; cursor is the 0-based index of the
\* code, so slice[cursor] of the code is slice[cursor + 1] here.  The element
\* is pushed before the match on its name.
RECURSIVE AssembleLoop(_, _, _)
AssembleLoop(s, cursor, elements) ==
    IF cursor >= Len(s) THEN [elements |-> elements, cursor |-> cursor]
    ELSE LET pushed == Append(elements, s[cursor + 1])
         IN  IF s[cursor + 1].name \in Terminators
             THEN [elements |-> pushed, cursor |-> cursor + 1]
             ELSE IF s[cursor + 1].name = "Tag"
                  THEN [elements |-> pushed, cursor |-> cursor]
                  ELSE AssembleLoop(s, cursor + 1, pushed)

\* As AssembleLoop, with the Tag arm advancing the cursor like the default arm.
RECURSIVE AssembleConsumeTag(_, _, _)
AssembleConsumeTag(s, cursor, elements) ==
    IF cursor >= Len(s) THEN [elements |-> elements, cursor |-> cursor]
    ELSE LET pushed == Append(elements, s[cursor + 1])
         IN  IF s[cursor + 1].name \in Terminators \cup {"Tag"}
             THEN [elements |-> pushed, cursor |-> cursor + 1]
             ELSE AssembleConsumeTag(s, cursor + 1, pushed)

\* As AssembleLoop, with JUMPI among the instructions that end a block.
RECURSIVE AssembleJumpiEnds(_, _, _)
AssembleJumpiEnds(s, cursor, elements) ==
    IF cursor >= Len(s) THEN [elements |-> elements, cursor |-> cursor]
    ELSE LET pushed == Append(elements, s[cursor + 1])
         IN  IF s[cursor + 1].name \in Terminators \cup {"JUMPI"}
             THEN [elements |-> pushed, cursor |-> cursor + 1]
             ELSE IF s[cursor + 1].name = "Tag"
                  THEN [elements |-> pushed, cursor |-> cursor]
                  ELSE AssembleJumpiEnds(s, cursor + 1, pushed)

AssembleElementsSkipTag(s, cursor) == AssembleSkipTag(s, cursor, <<>>)

AssembleElementsConsumeTag(s, cursor) == AssembleConsumeTag(s, cursor, <<>>)

AssembleElementsJumpiEnds(s, cursor) == AssembleJumpiEnds(s, cursor, <<>>)

AssembleElements(s, cursor) == AssembleLoop(s, cursor, <<>>)

\* FunctionBlockKey::new(code_type, tag)
FunctionBlockKeyZero(ct, tag) == [code_type |-> ct, tag |-> 0]

FunctionBlockKey(ct, tag) == [code_type |-> ct, tag |-> tag]

\* The block literal of the constructor: no instance, no predecessors, empty
\* stacks, no extra hashes.
NewBlock(ct, tag, elements) ==
    [key |-> FunctionBlockKey(ct, tag), instance |-> <<>>, elements |-> elements,
     predecessors |-> {}, initial_stack |-> <<>>, stack |-> <<>>,
     extra_hashes |-> <<>>]

Panic == [kind |-> "panic", value |-> <<>>]

Ok(v) == [kind |-> "Ok", value |-> <<v>>]

\* As LeadingTag, with the `cursor += 1` after the opening tag forgotten.
LeadingTagNoAdvance(s) ==
    IF s[1].name = "Tag"
    THEN IF ~s[1].value.some THEN [ok |-> FALSE, tag |-> 0, cursor |-> 0]
         ELSE LET parsed == ParseBigUint(s[1].value.text)
              IN  IF parsed.ok THEN [ok |-> TRUE, tag |-> parsed.num, cursor |-> 0]
                  ELSE [ok |-> FALSE, tag |-> 0, cursor |-> 0]
    ELSE [ok |-> TRUE, tag |-> 0, cursor |-> 0]

\* The leading `match slice[cursor].name`: the tag and the cursor after it, or
\* a panic (`expect`) on a missing or unparsable operand.
LeadingTag(s) ==
    IF s[1].name = "Tag"
    THEN IF ~s[1].value.some THEN [ok |-> FALSE, tag |-> 0, cursor |-> 0]
         ELSE LET parsed == ParseBigUint(s[1].value.text)
              IN  IF parsed.ok THEN [ok |-> TRUE, tag |-> parsed.num, cursor |-> 1]
                  ELSE [ok |-> FALSE, tag |-> 0, cursor |-> 0]
    ELSE [ok |-> TRUE, tag |-> 0, cursor |-> 0]

TryFromInstructions(ct, s) ==
    IF Len(s) = 0 THEN Panic   \* slice[0] is out of bounds
    ELSE LET lead == LeadingTag(s)
         IN  IF ~lead.ok THEN Panic
             ELSE LET body == AssembleElements(s, lead.cursor)
                  IN  Ok([block |-> NewBlock(ct, lead.tag, body.elements),
                          cursor |-> body.cursor])

(***************************************************************************)
(* SpecCall: one call of try_from_instructions on any slice.               *)
(***************************************************************************)
NotCalled == [kind |-> "none", value |-> <<>>]

IdlePartition ==
    /\ stream = <<>>
    /\ offset = 0
    /\ blocks = <<>>
    /\ pstatus = "idle"

IdleCall ==
    /\ slice = <<>>
    /\ result = NotCalled

IdleBlock ==
    /\ blk = <<>>
    /\ inserted = <<>>
    /\ last = <<>>
    /\ ncalls = 0
    /\ dumps = <<>>

IdleEmit ==
    /\ emit = <<>>
    /\ context = <<>>

IdleCompile == comp = <<>>

InitCall ==
    /\ slice \in Slices
    /\ code_type \in CodeTypes
    /\ result = NotCalled
    /\ IdlePartition
    /\ IdleBlock
    /\ IdleEmit
    /\ IdleCompile

Call ==
    /\ result = NotCalled
    /\ pstatus = "idle"
    /\ result' = TryFromInstructions(code_type, slice)
    /\ UNCHANGED <<slice, partVars, blockVars, emitVars, comp, code_type>>

NextCall == Call

SpecCall == InitCall /\ [][NextCall]_vars

(***************************************************************************)
(* SpecPartition: the caller's loop, which calls try_from_instructions on  *)
(* the remaining suffix and advances by the consumed count until the       *)
(* stream is exhausted.  Each entry of blocks records the block, the       *)
(* offset the call started at and the consumed count it returned.          *)
(***************************************************************************)
Suffix(s, off) == SubSeq(s, off + 1, Len(s))

InitPartition ==
    /\ stream \in Slices
    /\ code_type \in CodeTypes
    /\ offset = 0
    /\ blocks = <<>>
    /\ pstatus = "running"
    /\ IdleCall
    /\ IdleBlock
    /\ IdleEmit
    /\ IdleCompile

PartitionStep ==
    /\ pstatus = "running"
    /\ offset < Len(stream)
    /\ LET r == TryFromInstructions(code_type, Suffix(stream, offset))
       IN  IF r.kind = "Ok"
           THEN /\ blocks' = Append(blocks, [block |-> r.value[1].block,
                                             offset |-> offset,
                                             cursor |-> r.value[1].cursor])
                /\ offset' = offset + r.value[1].cursor
                /\ pstatus' = "running"
           ELSE /\ pstatus' = "panic"
                /\ UNCHANGED <<blocks, offset>>
    /\ UNCHANGED <<stream, callVars, blockVars, emitVars, comp, code_type>>

PartitionDone ==
    /\ pstatus = "running"
    /\ offset >= Len(stream)
    /\ pstatus' = "done"
    /\ UNCHANGED <<stream, offset, blocks, callVars, blockVars, emitVars, comp, code_type>>

NextPartition == PartitionStep \/ PartitionDone

SpecPartition == InitPartition /\ [][NextPartition]_vars

(***************************************************************************)
(* SpecBlock: two blocks built from the same slice, their predecessor sets *)
(* and their textual dumps.  A HashSet iterates in an order that depends   *)
(* on its hasher's random keys and on its table: order is that order.      *)
(***************************************************************************)
PredecessorTags == {1, 2}

PredecessorInstances == {0, 1}

BlockSlices ==
    {<<Instr("Tag", Some(<<"1">>)), Instr("PUSH", Some(<<"5">>)), Instr("STOP", None)>>,
     <<Instr("ADD", None)>>}

IterationOrders(S) ==
    {f \in [1..Cardinality(S) -> S] : \A i, j \in 1..Cardinality(S) : f[i] = f[j] => i = j}

\* As InsertPredecessor, keeping one instance per key, as a map would.
InsertPredecessorPerKey(predecessors, key, instance) ==
    {p \in predecessors : p[1] # key} \cup {<<key, instance>>}

\* self.predecessors.insert((key, instance))
InsertPredecessor(predecessors, key, instance) ==
    predecessors \cup {<<key, instance>>}

\* Option::unwrap_or_default of the instance
UnwrapOrDefault(instance) == IF instance = <<>> THEN 0 ELSE instance[1]

DisplayKey(key) == <<key.code_type, "_", ToString(key.tag)>>

DisplayElement(element) ==
    <<element.name>> \o (IF element.value.some THEN element.value.text ELSE <<>>)

\* join(", ") of the "{key}/{instance}" of each predecessor, in iteration order
RECURSIVE JoinPredecessors(_)
JoinPredecessors(order) ==
    IF order = <<>> THEN <<>>
    ELSE DisplayKey(Head(order)[1]) \o <<"/", ToString(Head(order)[2])>>
             \o (IF Tail(order) = <<>> THEN <<>> ELSE <<", ">>)
             \o JoinPredecessors(Tail(order))

RECURSIVE DisplayElements(_)
DisplayElements(elements) ==
    IF elements = <<>> THEN <<>>
    ELSE <<"    ">> \o DisplayElement(Head(elements)) \o <<"\n">>
             \o DisplayElements(Tail(elements))

\* Display::fmt; order is the order self.predecessors.iter() yields.
Display(block, order) ==
    <<"block_">> \o DisplayKey(block.key)
        \o <<"/", ToString(UnwrapOrDefault(block.instance)), ": ">>
        \o (IF block.predecessors = {} THEN <<"">>
            ELSE <<"(predecessors: ">> \o JoinPredecessors(order) \o <<")">>)
        \o <<"\n">>
        \o DisplayElements(block.elements)

InitBlock ==
    /\ code_type \in CodeTypes
    /\ \E s \in BlockSlices :
           blk = [i \in 1..2 |->
                     [block |-> TryFromInstructions(code_type, s).value[1].block,
                      order |-> <<>>]]
    /\ inserted = [i \in 1..2 |-> {}]
    /\ last = <<>>
    /\ ncalls = 0
    /\ dumps = [i \in 1..2 |-> <<>>]
    /\ IdleCall
    /\ IdlePartition
    /\ IdleEmit
    /\ IdleCompile

InsertPredecessorCall(i, key, instance) ==
    /\ ncalls < MaxInserts
    /\ LET before == blk[i].block.predecessors
           after == InsertPredecessor(before, key, instance)
       IN  /\ \E order \in (IF after = before THEN {blk[i].order}
                            ELSE IterationOrders(after)) :
                  blk' = [blk EXCEPT ![i].block.predecessors = after,
                                     ![i].order = order]
           /\ last' = <<[block |-> i, pair |-> <<key, instance>>, before |-> before]>>
           /\ dumps' = [dumps EXCEPT ![i] = IF after = before THEN @ ELSE <<>>]
    /\ inserted' = [inserted EXCEPT ![i] = @ \cup {<<key, instance>>}]
    /\ ncalls' = ncalls + 1
    /\ UNCHANGED <<callVars, partVars, emitVars, comp, code_type>>

Fmt(i) ==
    /\ dumps[i] = <<>>
    /\ dumps' = [dumps EXCEPT ![i] = <<Display(blk[i].block, blk[i].order)>>]
    /\ UNCHANGED <<blk, inserted, last, ncalls, callVars, partVars, emitVars, comp,
                   code_type>>

NextBlock ==
    \/ \E i \in 1..2, tag \in PredecessorTags, instance \in PredecessorInstances :
           InsertPredecessorCall(i, FunctionBlockKey(code_type, tag), instance)
    \/ \E i \in 1..2 : Fmt(i)

SpecBlock == InitBlock /\ [][NextBlock]_vars

(***************************************************************************)
(* C6. insert_predecessor is idempotent and monotone: a call with a pair   *)
(* that is already in the set leaves the set as it was (same members, same *)
(* size), no call removes a member, and every pair ever inserted is still  *)
(* in the set.                                                             *)
(***************************************************************************)
C6_Idempotent ==
    /\ \A i \in 1..2 : blk[i].block.predecessors = inserted[i]
    /\ last # <<>> =>
           LET after == blk[last[1].block].block.predecessors
           IN  /\ last[1].before \subseteq after
               /\ last[1].pair \in after
               /\ Cardinality(after) >= Cardinality(last[1].before)
               /\ last[1].pair \in last[1].before =>
                      /\ after = last[1].before
                      /\ Cardinality(after) = Cardinality(last[1].before)

\* A pair inserted a second time into a set of several pairs.
C6_Witness ==
    /\ last # <<>>
    /\ last[1].pair \in last[1].before
    /\ Cardinality(last[1].before) >= 2

(***************************************************************************)
(* C8. The dump is deterministic: two blocks of equal key, instance,       *)
(* predecessor set and elements render to the same text.                   *)
(***************************************************************************)
C8_Deterministic ==
    (/\ dumps[1] # <<>>
     /\ dumps[2] # <<>>
     /\ blk[1].block = blk[2].block)
        => dumps[1] = dumps[2]

(***************************************************************************)
(* SpecEmit: WriteLLVM::into_llvm of a block.  The context is external: it *)
(* records the region selected and the elements emitted, and whether the   *)
(* emission of the element at each position succeeds ("ok") or fails with  *)
(* an error is drawn with the block.                                       *)
(***************************************************************************)
EmitInstructions ==
    {Instr("PUSH", Some(<<"5">>)), Instr("JUMPI", None), Instr("Tag", Some(<<"2">>))}

EmitOutcomes == {"ok", "unsupported opcode", "stack underflow"}

Err(e) == [kind |-> "Err", value |-> <<e>>]

\* As Try, with the failure swallowed.
TrySwallow(outcome) == [returns |-> FALSE, result |-> NotCalled]

\* The `?` on a Result: an error returns from the function as it is.
Try(outcome) ==
    IF outcome = "ok" THEN [returns |-> FALSE, result |-> NotCalled]
    ELSE [returns |-> TRUE, result |-> Err(outcome)]

InitEmit ==
    /\ code_type \in CodeTypes
    /\ \E n \in 0..MaxElements :
           \E elements \in [1..n -> EmitInstructions], outcomes \in [1..n -> EmitOutcomes] :
               emit = [block |-> NewBlock(code_type, 1, elements), outcomes |-> outcomes,
                       pc |-> "start", i |-> 1, result |-> NotCalled]
    /\ context = [code_type |-> <<>>, attempted |-> <<>>, emitted |-> <<>>,
                  selected_first |-> TRUE]
    /\ IdleCall
    /\ IdlePartition
    /\ IdleBlock
    /\ IdleCompile

\* context.set_code_type(self.key.code_type)
SetCodeType ==
    /\ emit.pc = "start"
    /\ context' = [context EXCEPT !.code_type = <<emit.block.key.code_type>>,
                                  !.selected_first = context.attempted = <<>>]
    /\ emit' = [emit EXCEPT !.pc = "elements"]
    /\ UNCHANGED <<callVars, partVars, blockVars, comp, code_type>>

\* One turn of the loop: element.into_llvm(context)?
ElementIntoLlvm ==
    /\ emit.pc = "elements"
    /\ emit.i <= Len(emit.block.elements)
    /\ LET element == emit.block.elements[emit.i]
           outcome == emit.outcomes[emit.i]
           tried == Try(outcome)
       IN  /\ context' = [context EXCEPT
                              !.attempted = Append(@, element),
                              !.emitted = IF outcome = "ok" THEN Append(@, element) ELSE @]
           /\ emit' = IF tried.returns
                      THEN [emit EXCEPT !.pc = "returned", !.result = tried.result]
                      ELSE [emit EXCEPT !.i = @ + 1]
    /\ UNCHANGED <<callVars, partVars, blockVars, comp, code_type>>

\* Ok(()) after the loop
IntoLlvmReturn ==
    /\ emit.pc = "elements"
    /\ emit.i > Len(emit.block.elements)
    /\ emit' = [emit EXCEPT !.pc = "returned", !.result = Ok("unit")]
    /\ UNCHANGED <<context, callVars, partVars, blockVars, comp, code_type>>

NextEmit == SetCodeType \/ ElementIntoLlvm \/ IntoLlvmReturn

SpecEmit == InitEmit /\ [][NextEmit]_vars

(***************************************************************************)
(* C7. Emission selects the block's region first and then emits the        *)
(* elements in program order; the first failing element ends it: nothing   *)
(* after it is attempted, those before it were emitted in order, and its   *)
(* error is what the caller gets; with no failure every element is emitted *)
(* once and the result is success.                                         *)
(***************************************************************************)
Failing == {i \in 1..Len(emit.block.elements) : emit.outcomes[i] # "ok"}

FirstFailing == CHOOSE i \in Failing : \A j \in Failing : i <= j

\* C7: the region is selected before any element; the elements attempted and
\* emitted are prefixes of the block's elements; on return, the result is the
\* first failing element's error with nothing attempted after it, or success
\* with every element emitted.
C7_OrderedEmission ==
    /\ context.selected_first
    /\ context.attempted # <<>> => context.code_type = <<emit.block.key.code_type>>
    /\ emit.pc # "start" => context.code_type = <<emit.block.key.code_type>>
    /\ Len(context.attempted) <= Len(emit.block.elements)
    /\ context.attempted = SubSeq(emit.block.elements, 1, Len(context.attempted))
    /\ context.emitted = SubSeq(emit.block.elements, 1, Len(context.emitted))
    /\ emit.pc = "returned" =>
           IF Failing = {}
           THEN /\ emit.result = Ok("unit")
                /\ context.emitted = emit.block.elements
                /\ context.attempted = emit.block.elements
           ELSE /\ emit.result = Err(emit.outcomes[FirstFailing])
                /\ context.emitted = SubSeq(emit.block.elements, 1, FirstFailing - 1)
                /\ context.attempted = SubSeq(emit.block.elements, 1, FirstFailing)

\* An emission that failed at an element with elements before and after it.
C7_Witness ==
    /\ emit.pc = "returned"
    /\ emit.result.kind = "Err"
    /\ Len(context.emitted) >= 1
    /\ Len(context.attempted) < Len(emit.block.elements)

(***************************************************************************)
(* SpecCompile: Contract::compile.  The stages are external; which of them *)
(* fail is drawn with the contract.                                        *)
(***************************************************************************)
IRs == {"Yul", "EVMLA", "LLVMIR", "ZKASM"}

Stages == {"module", "declare", "into_llvm", "build"}

FactoryDependencies == {"A", "B"}

\* Contract::drain_factory_dependencies
DrainFactoryDependencies(ir, dependencies) ==
    IF ir \in {"Yul", "EVMLA"} THEN dependencies ELSE {}

\* ContractBuild::new(path, identifier, build, metadata_json, factory_dependencies)
ContractBuild(build, factory_dependencies) ==
    [build |-> build, factory_dependencies |-> factory_dependencies]

\* As StageResult, with the stage's failure ignored.
StageResultIgnored(failed, error) == [returns |-> FALSE, result |-> NotCalled]

\* The `?` after a stage: a failed stage returns its error from compile.
StageResult(failed, error) ==
    IF failed THEN [returns |-> TRUE, result |-> Err(error)]
    ELSE [returns |-> FALSE, result |-> NotCalled]

InitCompile ==
    /\ code_type \in CodeTypes
    /\ \E ir \in IRs, dependencies \in SUBSET FactoryDependencies, fails \in SUBSET Stages :
           comp = [ir |-> ir, ir_dependencies |-> dependencies, fails |-> fails,
                   pc |-> "module", trace |-> <<>>, factory_dependencies |-> {},
                   result |-> NotCalled]
    /\ IdleCall
    /\ IdlePartition
    /\ IdleBlock
    /\ IdleEmit

OtherVars == <<callVars, partVars, blockVars, emitVars, code_type>>

\* `let module = match self.ir`, then the context and the drained dependencies
CreateModule ==
    /\ comp.pc = "module"
    /\ \/ /\ comp.ir = "LLVMIR"
          /\ LET r == StageResult("module" \in comp.fails, "create_module_from_ir")
             IN  comp' = [comp EXCEPT
                     !.trace = Append(@, "create_module_from_ir"),
                     !.pc = IF r.returns THEN "returned" ELSE "declare",
                     !.result = r.result,
                     !.factory_dependencies =
                         IF r.returns THEN @
                         ELSE DrainFactoryDependencies(comp.ir, comp.ir_dependencies),
                     !.ir_dependencies = IF r.returns THEN @ ELSE {}]
       \/ /\ comp.ir = "ZKASM"
          /\ LET r == StageResult("module" \in comp.fails, "build_assembly_text")
             IN  comp' = [comp EXCEPT
                     !.trace = Append(@, "build_assembly_text"),
                     !.pc = "returned",
                     !.result = IF r.returns THEN r.result
                                ELSE Ok(ContractBuild("assembly", {}))]
       \/ /\ comp.ir \in {"Yul", "EVMLA"}
          /\ comp' = [comp EXCEPT
                 !.trace = Append(@, "create_module"),
                 !.pc = "declare",
                 !.factory_dependencies =
                     DrainFactoryDependencies(comp.ir, comp.ir_dependencies),
                 !.ir_dependencies = {}]
    /\ UNCHANGED OtherVars

\* self.ir.declare(&mut context).map_err(..)?
Declare ==
    /\ comp.pc = "declare"
    /\ LET r == StageResult("declare" \in comp.fails, "declaration pass error")
       IN  comp' = [comp EXCEPT !.trace = Append(@, "declare"),
                                !.pc = IF r.returns THEN "returned" ELSE "into_llvm",
                                !.result = r.result]
    /\ UNCHANGED OtherVars

\* self.ir.into_llvm(&mut context).map_err(..)?
Define ==
    /\ comp.pc = "into_llvm"
    /\ LET r == StageResult("into_llvm" \in comp.fails, "definition pass error")
       IN  comp' = [comp EXCEPT !.trace = Append(@, "into_llvm"),
                                !.pc = IF r.returns THEN "returned" ELSE "build",
                                !.result = r.result]
    /\ UNCHANGED OtherVars

\* context.build(..)? and Ok(ContractBuild::new(..))
Build ==
    /\ comp.pc = "build"
    /\ LET r == StageResult("build" \in comp.fails, "build error")
       IN  comp' = [comp EXCEPT
               !.trace = Append(@, "build"),
               !.pc = "returned",
               !.result = IF r.returns THEN r.result
                          ELSE Ok(ContractBuild("module", comp.factory_dependencies))]
    /\ UNCHANGED OtherVars

NextCompile == CreateModule \/ Declare \/ Define \/ Build

SpecCompile == InitCompile /\ [][NextCompile]_vars

(***************************************************************************)
(* C9. compile runs module creation, the declaration pass, the definition  *)
(* pass and context.build in this order; a failing stage ends it with an   *)
(* error, no later stage runs and no build is returned; a build is         *)
(* returned only when every stage that ran succeeded; a ZKASM contract     *)
(* skips both passes and its build has no factory dependencies.            *)
(***************************************************************************)
\* The stages of a contract of each kind, in order, each with the name under
\* which its failure is drawn ("" for create_module, which cannot fail).
StageOrder(ir) ==
    CASE ir = "ZKASM" -> <<<<"build_assembly_text", "module">>>>
      [] ir = "LLVMIR" -> <<<<"create_module_from_ir", "module">>, <<"declare", "declare">>,
                            <<"into_llvm", "into_llvm">>, <<"build", "build">>>>
      [] OTHER -> <<<<"create_module", "">>, <<"declare", "declare">>,
                    <<"into_llvm", "into_llvm">>, <<"build", "build">>>>

FailedStages(ir, fails) ==
    {i \in 1..Len(StageOrder(ir)) : StageOrder(ir)[i][2] \in fails}

\* C9: the stages run are a prefix of the contract kind's stage order; a
\* failed stage is the last one run and gives an error without a build; a
\* build is returned exactly when all stages ran and none failed; a ZKASM
\* build ran build_assembly_text alone and has no factory dependencies.
C9_Stages ==
    LET order == StageOrder(comp.ir)
        failed == FailedStages(comp.ir, comp.fails)
        ran == Len(comp.trace)
    IN  /\ ran <= Len(order)
        /\ \A i \in 1..ran : comp.trace[i] = order[i][1]
        /\ \A i \in 1..ran : i \in failed => (i = ran /\ comp.pc = "returned")
        /\ comp.pc # "returned" => comp.result = NotCalled
        /\ comp.pc = "returned" =>
               /\ comp.result.kind \in {"Ok", "Err"}
               /\ comp.result.kind = "Err" <=> ran \in failed
               /\ comp.result.kind = "Ok" <=> (ran = Len(order) /\ failed = {})
               /\ comp.result.kind = "Err" =>
                      /\ failed # {}
                      /\ \A j \in failed : ran <= j
               /\ (comp.result.kind = "Ok" /\ comp.ir = "ZKASM") =>
                      /\ comp.result.value[1].factory_dependencies = {}
                      /\ comp.trace = <<"build_assembly_text">>

\* A compile that failed in the definition pass, and so never built.
C9_Witness ==
    /\ comp.pc = "returned"
    /\ comp.result.kind = "Err"
    /\ comp.trace[Len(comp.trace)] = "into_llvm"
    /\ "build" \in comp.fails

(***************************************************************************)
(* What the claims speak of, stated from the stream alone.                 *)
(***************************************************************************)
UnconditionalExits == {"RETURN", "REVERT", "STOP", "INVALID", "JUMP"}

DecimalDigits == {"0", "1", "2", "3", "4", "5", "6", "7", "8", "9"}

\* The number a drawn tag operand denotes.
OperandNumber(text) ==
    CASE text = <<"0">> -> 0
      [] text = <<"1">> -> 1
      [] text = <<"2">> -> 2
      [] text = <<"0", "1">> -> 1
      [] OTHER -> -1

IsTagAt(s, i) == s[i].name = "Tag"

\* An empty slice, or a leading Tag whose operand is missing or is no
\* non-negative integer.
Malformed(s) ==
    \/ s = <<>>
    \/ /\ IsTagAt(s, 1)
       /\ \/ ~s[1].value.some
          \/ s[1].value.text = <<>>
          \/ \E i \in 1..Len(s[1].value.text) : s[1].value.text[i] \notin DecimalDigits

\* The index of the first instruction after the opening tag.
FirstElement(s) == IF IsTagAt(s, 1) THEN 2 ELSE 1

\* The index of the first instruction, from FirstElement on, that is an
\* unconditional exit or a Tag marker; Len(s) + 1 when there is none.
StopIndex(s) ==
    LET stops == {i \in FirstElement(s)..Len(s) :
                    s[i].name \in UnconditionalExits \cup {"Tag"}}
    IN  IF stops = {} THEN Len(s) + 1
        ELSE CHOOSE i \in stops : \A j \in stops : i <= j

StoppedByTag(s) == StopIndex(s) <= Len(s) /\ IsTagAt(s, StopIndex(s))

Min(a, b) == IF a <= b THEN a ELSE b

Returned == result.value[1]

(***************************************************************************)
(* C2. As claimed: the elements of the returned block are the instructions *)
(* after the opening tag up to and including the first unconditional exit, *)
(* or up to but excluding the next Tag marker, or up to the end.           *)
(***************************************************************************)
C2_Original ==
    (result # NotCalled /\ ~Malformed(slice)) =>
        /\ result.kind = "Ok"
        /\ Returned.block.key.tag =
               (IF IsTagAt(slice, 1) THEN OperandNumber(slice[1].value.text) ELSE 0)
        /\ Returned.block.elements =
               SubSeq(slice, FirstElement(slice),
                      IF StoppedByTag(slice) THEN StopIndex(slice) - 1
                      ELSE Min(StopIndex(slice), Len(slice)))

\* C2, amended: for every non-empty slice whose leading tag operand is valid,
\* the key is (code type, numeric operand of the leading Tag, or zero), no
\* instance is set, and the elements are the instructions after the opening
\* tag up to and INCLUDING the first unconditional exit or Tag marker, or up
\* to the end of the slice; the consumed count stops before that Tag marker.
\* JUMPI does not end a block.
C2_Elements ==
    (result # NotCalled /\ ~Malformed(slice)) =>
        /\ result.kind = "Ok"
        /\ Returned.block.key.code_type = code_type
        /\ Returned.block.key.tag =
               (IF IsTagAt(slice, 1) THEN OperandNumber(slice[1].value.text) ELSE 0)
        /\ Returned.block.instance = <<>>
        /\ Returned.block.elements =
               SubSeq(slice, FirstElement(slice), Min(StopIndex(slice), Len(slice)))
        /\ Returned.cursor =
               (IF StoppedByTag(slice) THEN StopIndex(slice) - 1
                ELSE Min(StopIndex(slice), Len(slice)))
        /\ \A j \in 1..(Len(Returned.block.elements) - 1) :
               Returned.block.elements[j].name \notin UnconditionalExits \cup {"Tag"}

\* The scenario's first block holds PUSH 5, PUSH 3, ADD and the Tag 2 marker.
C2_Witness ==
    /\ slice = Scenario
    /\ result.kind = "Ok"
    /\ Returned.block.key.tag = 1
    /\ Returned.block.elements = SubSeq(Scenario, 2, 5)
    /\ Returned.cursor = 4

(***************************************************************************)
(* C5. As claimed: a malformed slice yields an error result.               *)
(***************************************************************************)
C5_Original ==
    (result # NotCalled /\ Malformed(slice)) =>
        (result.kind = "Err" /\ result.value = <<>>)

\* C5, amended: an empty slice, or a leading Tag whose operand is missing or
\* is no non-negative integer, makes the call panic at construction: no block
\* and no consumed count are returned, and no error result either; every
\* other slice yields a block and a count.
C5_Panics ==
    result # NotCalled =>
        /\ result.kind \in {"Ok", "panic"}
        /\ Malformed(slice) <=> result.kind = "panic"
        /\ result.kind = "panic" => result.value = <<>>
        /\ result.kind = "Ok" => Len(result.value) = 1

\* A call on a slice whose leading Tag has an unparsable operand.
C5_Witness ==
    /\ result.kind = "panic"
    /\ slice # <<>>
    /\ slice[1] = Instr("Tag", Some(<<"-", "1">>))

(***************************************************************************)
(* The partition of a stream.  Positions are 0-based, as in the code.      *)
(***************************************************************************)
Entries == 1..Len(blocks)

OpenedByTag(k) == IsTagAt(stream, blocks[k].offset + 1)

\* The position of the j-th element of the k-th block.
ElementPosition(k, j) ==
    blocks[k].offset + (IF OpenedByTag(k) THEN 1 ELSE 0) + j - 1

\* Where position p occurs: <<k, 0>> as the opening tag of block k, <<k, j>>
\* as its j-th element.
Occurrences(p) ==
    {<<k, 0>> : k \in {e \in Entries : OpenedByTag(e) /\ blocks[e].offset = p}}
        \cup {kj \in UNION {{<<k, j>> : j \in 1..Len(blocks[k].block.elements)} :
                              k \in Entries} :
                ElementPosition(kj[1], kj[2]) = p}

ElementsAreTheStream ==
    \A k \in Entries : \A j \in 1..Len(blocks[k].block.elements) :
        /\ ElementPosition(k, j) < Len(stream)
        /\ blocks[k].block.elements[j] = stream[ElementPosition(k, j) + 1]

RECURSIVE SumCursors(_)
SumCursors(k) == IF k = 0 THEN 0 ELSE SumCursors(k - 1) + blocks[k].cursor

Finished == pstatus = "done" /\ stream # <<>>

(***************************************************************************)
(* C1. As claimed: every stream position occurs exactly once, as an        *)
(* opening tag or as an element.                                           *)
(***************************************************************************)
C1_Original ==
    Finished =>
        /\ ElementsAreTheStream
        /\ \A p \in 0..(Len(stream) - 1) : Cardinality(Occurrences(p)) = 1

\* C1, amended: the consumed ranges of the calls partition the stream without
\* gap or overlap and every position occurs in some block, but a Tag marker
\* that follows an instruction other than an unconditional exit occurs twice:
\* as the last element of the block before it and as the opening tag of its
\* own block.  Every other position occurs exactly once.
C1_Partition ==
    Finished =>
        /\ ElementsAreTheStream
        /\ blocks[1].offset = 0
        /\ \A k \in Entries :
               blocks[k].offset + blocks[k].cursor =
                   (IF k = Len(blocks) THEN Len(stream) ELSE blocks[k + 1].offset)
        /\ \A p \in 0..(Len(stream) - 1) :
               Cardinality(Occurrences(p)) =
                   (IF p > 0 /\ IsTagAt(stream, p + 1)
                         /\ stream[p].name \notin UnconditionalExits
                    THEN 2 ELSE 1)

\* A finished partition in which a Tag marker occurs in two blocks.
C1_Witness ==
    /\ Finished
    /\ \E p \in 0..(Len(stream) - 1) : Cardinality(Occurrences(p)) = 2

(***************************************************************************)
(* C3. As claimed: every block but the last ends with an unconditional     *)
(* exit.                                                                   *)
(***************************************************************************)
C3_Original ==
    Finished =>
        \A k \in Entries : k < Len(blocks) =>
            /\ blocks[k].block.elements # <<>>
            /\ blocks[k].block.elements[Len(blocks[k].block.elements)].name
                   \in UnconditionalExits

\* C3, amended: every block but the last is non-empty and its last element is
\* an unconditional exit or the Tag marker that opens the next block.
C3_LastElement ==
    Finished =>
        \A k \in Entries : k < Len(blocks) =>
            LET elements == blocks[k].block.elements
            IN  /\ elements # <<>>
                /\ \/ elements[Len(elements)].name \in UnconditionalExits
                   \/ /\ elements[Len(elements)].name = "Tag"
                      /\ elements[Len(elements)] = stream[blocks[k + 1].offset + 1]

\* A finished partition with a block, not the last, that ends with a Tag.
C3_Witness ==
    /\ Finished
    /\ \E k \in Entries :
           /\ k < Len(blocks)
           /\ blocks[k].block.elements # <<>>
           /\ blocks[k].block.elements[Len(blocks[k].block.elements)].name = "Tag"

(***************************************************************************)
(* C4. As claimed: no two blocks share a (key, instance) pair, and key     *)
(* zero goes to the first block only.                                      *)
(***************************************************************************)
Identity(k) == <<blocks[k].block.key, blocks[k].block.instance>>

UniqueIdentities == \A k, l \in Entries : Identity(k) = Identity(l) => k = l

C4_Original ==
    Finished =>
        /\ UniqueIdentities
        /\ \A k \in Entries : (k > 1 /\ ~OpenedByTag(k)) => blocks[k].block.key.tag # 0

\* The positions at which the stream's blocks start: the first one, every Tag
\* marker, and every instruction right after an unconditional exit.
BlockStarts ==
    {p \in 0..(Len(stream) - 1) :
        \/ p = 0
        \/ IsTagAt(stream, p + 1)
        \/ stream[p].name \in UnconditionalExits}

StartNumber(p) ==
    IF IsTagAt(stream, p + 1) THEN OperandNumber(stream[p + 1].value.text) ELSE 0

\* C4, amended: a block's key is (code type, numeric operand of its opening
\* Tag) and key zero goes to EVERY block that starts with another instruction:
\* the first block or a block right after an unconditional exit.  No instance
\* is set.  So two blocks share a (key, instance) pair exactly when their
\* numbers are equal: the pairs are distinct if and only if the stream's
\* block starts carry pairwise different numbers.
C4_Identities ==
    Finished =>
        /\ {blocks[k].offset : k \in Entries} = BlockStarts
        /\ \A k \in Entries :
               /\ blocks[k].block.key =
                      [code_type |-> code_type, tag |-> StartNumber(blocks[k].offset)]
               /\ blocks[k].block.instance = <<>>
               /\ ~OpenedByTag(k) =>
                      (k = 1 \/ stream[blocks[k].offset].name \in UnconditionalExits)
        /\ UniqueIdentities <=>
               \A p, q \in BlockStarts : StartNumber(p) = StartNumber(q) => p = q

\* A finished partition whose second block starts with a non-Tag instruction
\* right after an unconditional exit and shares key zero with the first.
C4_Witness ==
    /\ Finished
    /\ Len(blocks) >= 2
    /\ ~OpenedByTag(1)
    /\ ~OpenedByTag(2)
    /\ Identity(1) = Identity(2)

====
